---- MODULE Spec2Model ----
(***************************************************************************)
(* Model of voice-bridge/voice_bridge.py: the push-to-talk session logic   *)
(* of VoiceBridge (one instance, created in main() and shared by every     *)
(* connection handler), the AudioRecorder it drives, the auto-stop timer   *)
(* tasks it creates and the transcribe -> refine pipeline.                  *)
(*                                                                         *)
(* asyncio is cooperative: an action of the model is the code a coroutine  *)
(* runs between two suspension points.  The suspension points are the      *)
(* read of the next message (async for), asyncio.sleep in the timer task   *)
(* and the two run_in_executor awaits; websocket.send writes the frame and *)
(* returns without suspending (no back-pressure).                          *)
(***************************************************************************)
EXTENDS Integers, Sequences, FiniteSets, TLC

\* ------------------------------------------------------------------ bounds
Conns == {1, 2}          \* the websockets that connect to the server
MaxMsgs == 3             \* messages the clients send in one behaviour
MaxInbox == 1            \* messages queued on a connection, not yet read

\* ------------------------------------------------------- inbound payloads
\* Payload kinds a client can put on the wire.
Payloads == {"PTT_DOWN", "PTT_UP", "CANCEL", "UNKNOWN_ACTION", "NO_ACTION",
             "NON_OBJECT", "INVALID_JSON"}

\* json.loads(raw): the kind of Python value it yields, or the exception.
json_loads(raw) ==
    CASE raw = "INVALID_JSON" -> "JSONDecodeError"
      [] raw = "NON_OBJECT"   -> "non_dict"
      [] OTHER                -> "dict"

\* msg.get("action") on the decoded value: a list, string, number or null
\* has no .get (AttributeError); a dict without the key yields None.
msg_get_action(raw) ==
    CASE json_loads(raw) = "non_dict"                 -> "AttributeError"
      [] raw = "NO_ACTION"                            -> "None"
      [] raw = "UNKNOWN_ACTION"                       -> "other"
      [] OTHER                                        -> raw

Recognized == {"PTT_DOWN", "PTT_UP", "CANCEL"}

\* ----------------------------------------------------------- outbound events
Ev(e, p) == [event |-> e, payload |-> p]
LISTENING == Ev("LISTENING", "")
PROCESSING == Ev("PROCESSING", "")
FINAL_PROMPT(text) == Ev("FINAL_PROMPT", text)
ERROR(message) == Ev("ERROR", message)

MicError == "Mic error"
NoSpeech == "No speech detected"
RefineTimedOut == "LLM refinement timed out"
OllamaDown == "Ollama not running"
OtherError == "str(e)"

IsTerminal(e) == e.event \in {"FINAL_PROMPT", "ERROR"}

VARIABLES
    recording,      \* VoiceBridge._recording
    cancel,         \* VoiceBridge._cancel
    timeout_task,   \* VoiceBridge._timeout_task: 0 (None) or an index of tasks
    recorder,       \* AudioRecorder: _recording, _stream, _buffer
    tasks,          \* the _recording_timeout tasks created so far
    ws,             \* per websocket: "new", "open", "closed"
    inbox,          \* per websocket: payloads received, not yet read
    hpc,            \* per websocket: where its handler coroutine is suspended
    hrun,           \* per websocket: the pipeline its handler is awaiting
    out,            \* per websocket: events delivered to the client
    failed,         \* per websocket: sends attempted after it was closed
    mic,            \* environment: can the capture device be opened
    engine,         \* environment: what transcription and refinement return
    sent,           \* number of messages the clients have sent
    last,           \* history: kind of the last recording transition
    finished,       \* history: the pipeline runs that have ended
    turn            \* history: the recording in progress (or the last one):
                    \* the timer tasks armed during it, and per websocket
                    \* where in out the LISTENING that began it stands

vars == <<recording, cancel, timeout_task, recorder, tasks, ws, inbox, hpc,
          hrun, out, failed, mic, engine, sent, last, finished, turn>>

bridgeVars == <<recording, cancel, timeout_task, recorder, tasks>>
envVars == <<mic, engine>>

NoRun == [audio |-> "empty", events |-> <<>>, cancelIssued |-> FALSE, cancelSeen |-> FALSE]

\* ------------------------------------------------------------ AudioRecorder
\* _buffer and the audio array are kept as "empty" or "samples": the code
\* only ever tests them for emptiness (lines 99 and 124).
NewRecorder == [recording |-> FALSE, stream |-> "none", buffer |-> "empty"]

\* AudioRecorder.start: returns at once when already marked recording;
\* otherwise clears the buffer and sets _recording BEFORE opening the
\* stream, so a failing sd.InputStream leaves _recording set.
RecorderStart(r, m) ==
    IF r.recording THEN [rec |-> r, ok |-> TRUE]
    ELSE IF m = "ok"
         THEN [rec |-> [recording |-> TRUE, stream |-> "open", buffer |-> "empty"],
               ok |-> TRUE]
         ELSE [rec |-> [recording |-> TRUE, stream |-> r.stream, buffer |-> "empty"],
               ok |-> FALSE]

\* AudioRecorder.stop: closes the stream and returns the buffered audio
\* (the empty array when nothing was buffered), leaving the buffer empty.
RecorderStop(r) ==
    [rec |-> [recording |-> FALSE, stream |-> "none", buffer |-> "empty"],
     audio |-> r.buffer]

\* ------------------------------------------------------ Transcriber, Refiner
\* Transcriber.transcribe: "" for empty audio without calling the model,
\* otherwise what the model yields ("raise" stands for an exception).
Transcribe(audio) == IF audio = "empty" THEN "" ELSE engine.tr

\* Refiner.refine: "" for an empty transcript, otherwise the service's
\* answer, or one of the three exceptions it re-raises.
Refine(transcript) == IF transcript = "" THEN "" ELSE engine.rf

RefineErrors == {"Timeout", "ConnectionError", "Exception"}

\* ------------------------------------------------------------------- _send
\* websocket.send on an open socket delivers; on a closed one it raises
\* ConnectionClosed.  A send inside the try block of _handle_ptt_up that
\* raises is caught by "except Exception", whose own send raises again.
SendInTry(c, e) ==
    IF ws[c] = "open" THEN [delivered |-> <<e>>, failed |-> 0, raised |-> FALSE]
    ELSE [delivered |-> <<>>, failed |-> 2, raised |-> TRUE]

SendBare(c, e) ==
    IF ws[c] = "open" THEN [delivered |-> <<e>>, failed |-> 0, raised |-> FALSE]
    ELSE [delivered |-> <<>>, failed |-> 1, raised |-> TRUE]

NoSend == [delivered |-> <<>>, failed |-> 0, raised |-> FALSE]

\* ------------------------------------------------------------ asyncio tasks
\* Task.cancel(): a task suspended in asyncio.sleep or in a run_in_executor
\* await gets CancelledError thrown in; CancelledError is a BaseException,
\* so "except Exception" in _handle_ptt_up does not catch it and the task
\* ends.  Cancelling a task that has ended does nothing.
CancelTask(ts, t) ==
    IF ts[t].st \in {"sleep", "transcribe", "refine"}
    THEN [ts EXCEPT ![t].st = "cancelled"]
    ELSE ts

CancelHandle(ts, h) == IF h # 0 THEN CancelTask(ts, h) ELSE ts

InPipeline == {"transcribe", "refine"}

\* A pipeline run that has ended, as the history keeps it.
Fin(src, c, run, evs, sf) ==
    [src |-> src, ws |-> c, audio |-> run.audio, events |-> evs,
     cancelIssued |-> run.cancelIssued, cancelSeen |-> run.cancelSeen,
     sendFailed |-> sf]

\* --------------------------------------------------- _handle_ptt_up, stages
\* Lines 254-260 and 268-273: the code that runs when the transcription
\* await returns, on the websocket c of the coroutine that runs it.
TranscribeStep(c, audio) ==
    LET transcript == Transcribe(audio) IN
    IF transcript = "raise"
    THEN [next |-> "end", s |-> SendBare(c, ERROR(OtherError))]
    ELSE IF cancel
    THEN [next |-> "end", s |-> NoSend]
    ELSE IF transcript = ""
    THEN [next |-> "end", s |-> SendInTry(c, ERROR(NoSpeech))]
    ELSE [next |-> "refine", s |-> NoSend]

\* Lines 262-273: the code that runs when the refinement await returns.
RefineStep(c, audio) ==
    LET refined == Refine(Transcribe(audio)) IN
    IF refined = "Timeout"
    THEN [next |-> "end", s |-> SendBare(c, ERROR(RefineTimedOut))]
    ELSE IF refined = "ConnectionError"
    THEN [next |-> "end", s |-> SendBare(c, ERROR(OllamaDown))]
    ELSE IF refined = "Exception"
    THEN [next |-> "end", s |-> SendBare(c, ERROR(OtherError))]
    ELSE IF cancel
    THEN [next |-> "end", s |-> NoSend]
    ELSE [next |-> "end", s |-> SendInTry(c, FINAL_PROMPT(refined))]

\* ------------------------------------------------------------------- Init
Engines ==
    {e \in [tr : {"", "raw", "raise"},
            rf : {"refined"} \cup RefineErrors] :
        e.tr = "raw" \/ e.rf = "refined"}

Init ==
    /\ recording = FALSE
    /\ cancel = FALSE
    /\ timeout_task = 0
    /\ recorder = NewRecorder
    /\ tasks = <<>>
    /\ ws = [c \in Conns |-> "new"]
    /\ inbox = [c \in Conns |-> <<>>]
    /\ hpc = [c \in Conns |-> "none"]
    /\ hrun = [c \in Conns |-> NoRun]
    /\ out = [c \in Conns |-> <<>>]
    /\ failed = [c \in Conns |-> 0]
    /\ mic \in {"ok", "no_device"}
    /\ engine \in Engines
    /\ sent = 0
    /\ last = "none"
    /\ finished = {}
    /\ turn = [timers |-> {}, mark |-> [c \in Conns |-> 0]]

\* -------------------------------------------------------------- scheduling
\* A handler that waits in "async for" is woken as soon as a message or the
\* close of its connection arrives, and runs before the event loop takes up
\* anything that becomes ready later: the next arrival, the end of a sleep,
\* the next audio chunk, the result of an executor call.  Messages wait in the queue only while the handler
\* is suspended in the pipeline.
HandlerReady == \E c \in Conns :
    hpc[c] = "read" /\ (inbox[c] # <<>> \/ ws[c] = "closed")

\* ------------------------------------------------------------- the clients
\* websockets.serve accepts the connection and starts handler(websocket).
\* The websockets are numbered in the order in which they connect.
Connect(c) ==
    /\ ~HandlerReady
    /\ ws[c] = "new"
    /\ \A d \in Conns : d < c => ws[d] # "new"
    /\ ws' = [ws EXCEPT ![c] = "open"]
    /\ hpc' = [hpc EXCEPT ![c] = "read"]
    /\ UNCHANGED <<bridgeVars, envVars, inbox, hrun, out, failed, sent, turn, last,
                   finished>>

\* The client sends one payload; it waits in the connection's queue until
\* the handler's "async for" takes it.
ClientSend(c, m) ==
    /\ ~HandlerReady
    /\ ws[c] = "open"
    /\ sent < MaxMsgs
    /\ Len(inbox[c]) < MaxInbox
    /\ inbox' = [inbox EXCEPT ![c] = Append(@, m)]
    /\ sent' = sent + 1
    /\ hrun' = IF m = "CANCEL" /\ hpc[c] \in InPipeline
               THEN [hrun EXCEPT ![c].cancelIssued = TRUE]
               ELSE hrun
    /\ UNCHANGED <<bridgeVars, envVars, ws, hpc, out, failed, last, finished,
                   turn>>

\* The client closes the connection.
ClientClose(c) ==
    /\ ~HandlerReady
    /\ ws[c] = "open"
    /\ ws' = [ws EXCEPT ![c] = "closed"]
    /\ UNCHANGED <<bridgeVars, envVars, inbox, hpc, hrun, out, failed, sent, turn,
                   last, finished>>

\* The PortAudio callback appends a chunk while the recorder is recording
\* (a chunk appended to a buffer that has samples changes nothing here).
AudioCallback ==
    /\ ~HandlerReady
    /\ recorder.stream = "open"
    /\ recorder.recording
    /\ recorder.buffer = "empty"
    /\ recorder' = [recorder EXCEPT !.buffer = "samples"]
    /\ UNCHANGED <<recording, cancel, timeout_task, tasks, envVars, ws, inbox,
                   hpc, hrun, out, failed, sent, turn, last, finished>>

\* ----------------------------------------------------------------- handler
\* HandlerNext with a finally block that stops the capture but leaves
\* _recording as the step made it.
HandlerNext_KeepsRecording(c, rec1, recorder1, raised, pcNext, consume) ==
    /\ recording' = rec1
    /\ recorder' = IF raised /\ rec1 THEN RecorderStop(recorder1).rec
                   ELSE recorder1
    /\ hpc' = [hpc EXCEPT ![c] = IF raised THEN "ended" ELSE pcNext]
    /\ ws' = [ws EXCEPT ![c] = IF raised THEN "closed" ELSE @]
    /\ inbox' = [inbox EXCEPT ![c] = IF raised THEN <<>>
                                     ELSE IF consume THEN Tail(@) ELSE @]

\* What every handler step ends with.  rec1 and recorder1 are what the step
\* made of _recording and the recorder; raised says an exception left the
\* "async for" loop, so that the finally block (lines 219-222) runs, the
\* handler returns and the server closes the connection (what was queued is
\* never read); pcNext is where the handler suspends otherwise; consume
\* says the step began by taking a message from the queue.
HandlerNext(c, rec1, recorder1, raised, pcNext, consume) ==
    /\ recording' = IF raised THEN FALSE ELSE rec1
    /\ recorder' = IF raised /\ rec1 THEN RecorderStop(recorder1).rec
                   ELSE recorder1
    /\ hpc' = [hpc EXCEPT ![c] = IF raised THEN "ended" ELSE pcNext]
    /\ ws' = [ws EXCEPT ![c] = IF raised THEN "closed" ELSE @]
    /\ inbox' = [inbox EXCEPT ![c] = IF raised THEN <<>>
                                     ELSE IF consume THEN Tail(@) ELSE @]

Reading(c) == hpc[c] = "read" /\ inbox[c] # <<>>

\* Lines 200-204: json.loads raises JSONDecodeError; warning, continue.
HandlerInvalidJson(c) ==
    /\ Reading(c)
    /\ json_loads(Head(inbox[c])) = "JSONDecodeError"
    /\ HandlerNext(c, recording, recorder, FALSE, "read", TRUE)
    /\ UNCHANGED <<cancel, timeout_task, tasks, envVars, hrun, out, failed,
                   sent, turn, last, finished>>

\* Line 206: msg.get on a value that is not a dict raises AttributeError,
\* which no except clause of the handler catches; the finally block runs.
HandlerNonObject(c) ==
    /\ Reading(c)
    /\ json_loads(Head(inbox[c])) # "JSONDecodeError"
    /\ msg_get_action(Head(inbox[c])) = "AttributeError"
    /\ HandlerNext(c, recording, recorder, TRUE, "read", TRUE)
    /\ last' = "stop"
    /\ UNCHANGED <<cancel, timeout_task, tasks, envVars, hrun, out, failed,
                   sent, turn, finished>>

\* Lines 215-216: an action that is none of the three; warning only.
HandlerUnknown(c) ==
    /\ Reading(c)
    /\ json_loads(Head(inbox[c])) # "JSONDecodeError"
    /\ msg_get_action(Head(inbox[c])) \notin Recognized \cup {"AttributeError"}
    /\ HandlerNext(c, recording, recorder, FALSE, "read", TRUE)
    /\ UNCHANGED <<cancel, timeout_task, tasks, envVars, hrun, out, failed,
                   sent, turn, last, finished>>

\* Lines 217-222: the connection is closed and nothing is left to read; the
\* "async for" ends (or raises ConnectionClosed) and the finally block runs.
HandlerClosed(c) ==
    /\ hpc[c] = "read"
    /\ inbox[c] = <<>>
    /\ ws[c] = "closed"
    /\ HandlerNext(c, recording, recorder, TRUE, "read", FALSE)
    /\ last' = "stop"
    /\ UNCHANGED <<cancel, timeout_task, tasks, envVars, hrun, out, failed,
                   sent, turn, finished>>

Dispatch(c, action) ==
    /\ Reading(c)
    /\ json_loads(Head(inbox[c])) # "JSONDecodeError"
    /\ msg_get_action(Head(inbox[c])) = action

\* _handle_ptt_down, lines 224-235.
HandlePttDown(c) ==
    /\ Dispatch(c, "PTT_DOWN")
    /\ LET st == RecorderStart(recorder, mic)
           s == IF st.ok THEN SendInTry(c, LISTENING)
                ELSE SendBare(c, ERROR(MicError))
           armed == st.ok /\ ~s.raised
       IN /\ cancel' = FALSE
          /\ tasks' = IF armed
                      THEN Append(tasks, [ws |-> c, st |-> "sleep", run |-> NoRun])
                      ELSE tasks
          /\ timeout_task' = IF armed THEN Len(tasks) + 1 ELSE timeout_task
          /\ out' = [out EXCEPT ![c] = @ \o s.delivered]
          /\ failed' = [failed EXCEPT ![c] = @ + s.failed]
          /\ HandlerNext(c, IF st.ok THEN TRUE ELSE recording, st.rec,
                         s.raised, "read", TRUE)
          /\ last' = IF s.raised THEN "stop"
                     ELSE IF st.ok THEN "down" ELSE last
          /\ turn' = IF ~st.ok THEN turn
                     ELSE IF recording
                     THEN [turn EXCEPT !.timers = IF armed
                                                  THEN @ \cup {Len(tasks) + 1}
                                                  ELSE @]
                     ELSE [timers |-> IF armed THEN {Len(tasks) + 1} ELSE {},
                           mark |-> [d \in Conns |->
                                       IF d = c /\ armed
                                       THEN Len(out[c]) + 1 ELSE 0]]
    /\ UNCHANGED <<envVars, hrun, sent, finished>>

\* _handle_ptt_up without its first two lines ("if not self._recording:
\* return"): the stop sequence runs whether or not a recording is on.
HandlePttUp_NoGuard(c) ==
    /\ Dispatch(c, "PTT_UP")
    /\ LET sp == RecorderStop(recorder)
           s == IF cancel THEN NoSend ELSE SendBare(c, PROCESSING)
       IN /\ tasks' = CancelHandle(tasks, timeout_task)
          /\ timeout_task' = 0
          /\ out' = [out EXCEPT ![c] = @ \o s.delivered]
          /\ failed' = [failed EXCEPT ![c] = @ + s.failed]
          /\ hrun' = IF cancel \/ s.raised THEN hrun
                     ELSE [hrun EXCEPT ![c] =
                              [NoRun EXCEPT !.audio = sp.audio,
                                            !.events = <<PROCESSING>>]]
          /\ HandlerNext(c, FALSE, sp.rec, s.raised,
                         IF cancel THEN "read" ELSE "transcribe", TRUE)
    /\ last' = "stop"
    /\ UNCHANGED <<cancel, envVars, sent, turn, finished>>

\* _handle_ptt_up called by the handler, lines 237-250, up to the first
\* run_in_executor await.
HandlePttUp(c) ==
    /\ Dispatch(c, "PTT_UP")
    /\ IF ~recording
       THEN /\ HandlerNext(c, recording, recorder, FALSE, "read", TRUE)
            /\ UNCHANGED <<timeout_task, tasks, hrun, out, failed>>
       ELSE LET sp == RecorderStop(recorder)
                s == IF cancel THEN NoSend ELSE SendBare(c, PROCESSING)
            IN /\ tasks' = CancelHandle(tasks, timeout_task)
               /\ timeout_task' = 0
               /\ out' = [out EXCEPT ![c] = @ \o s.delivered]
               /\ failed' = [failed EXCEPT ![c] = @ + s.failed]
               /\ hrun' = IF cancel \/ s.raised THEN hrun
                          ELSE [hrun EXCEPT ![c] =
                                   [NoRun EXCEPT !.audio = sp.audio,
                                                 !.events = <<PROCESSING>>]]
               /\ HandlerNext(c, FALSE, sp.rec, s.raised,
                              IF cancel THEN "read" ELSE "transcribe", TRUE)
    /\ last' = "stop"
    /\ UNCHANGED <<cancel, envVars, sent, turn, finished>>

\* Every pipeline in flight sees the flag that _handle_cancel sets.
MarkRun(r) == [r EXCEPT !.cancelSeen = TRUE]

\* _handle_cancel, lines 275-284.
HandleCancel(c) ==
    /\ Dispatch(c, "CANCEL")
    /\ cancel' = TRUE
    /\ tasks' = [t \in DOMAIN tasks |->
                    [CancelHandle(tasks, timeout_task)[t] EXCEPT
                        !.run = IF tasks[t].st \in InPipeline
                                THEN MarkRun(@) ELSE @]]
    /\ timeout_task' = 0
    /\ hrun' = [d \in Conns |->
                   IF hpc[d] \in InPipeline THEN MarkRun(hrun[d]) ELSE hrun[d]]
    /\ HandlerNext(c, FALSE,
                   IF recording THEN RecorderStop(recorder).rec ELSE recorder,
                   FALSE, "read", TRUE)
    /\ last' = "stop"
    /\ UNCHANGED <<envVars, out, failed, sent, turn, finished>>

\* ------------------------------------------------- pipeline in the handler
\* The handler awaits _handle_ptt_up (line 212), so it is suspended in the
\* pipeline and reads no message until the pipeline returns.
HandlerStage(c, r) ==
    LET evs == hrun[c].events \o r.s.delivered
        ended == r.next = "end"
    IN /\ out' = [out EXCEPT ![c] = @ \o r.s.delivered]
       /\ failed' = [failed EXCEPT ![c] = @ + r.s.failed]
       /\ hrun' = [hrun EXCEPT ![c] = IF ended THEN NoRun
                                      ELSE [@ EXCEPT !.events = evs]]
       /\ finished' = IF ended
                      THEN finished \cup {Fin("PTT_UP", c, hrun[c], evs, r.s.raised)}
                      ELSE finished
       /\ HandlerNext(c, recording, recorder, r.s.raised,
                      IF ended THEN "read" ELSE r.next, FALSE)
       /\ last' = IF r.s.raised THEN "stop" ELSE last
       /\ UNCHANGED <<cancel, timeout_task, tasks, envVars, sent, turn>>

\* Line 254 returns: lines 256-260, or the except clauses.
HandlerTranscribed(c) ==
    /\ hpc[c] = "transcribe"
    /\ ~HandlerReady
    /\ HandlerStage(c, TranscribeStep(c, hrun[c].audio))

\* Line 262 returns: lines 264-267, or the except clauses.
HandlerRefined(c) ==
    /\ hpc[c] = "refine"
    /\ ~HandlerReady
    /\ HandlerStage(c, RefineStep(c, hrun[c].audio))

\* ------------------------------------------------------ _recording_timeout
\* _recording_timeout and _handle_ptt_up without their tests of _recording
\* (lines 289 and 239-240): the timer runs the stop sequence whether or not
\* a recording is on.
TimerFire_NoGuard(t) ==
    /\ t \in DOMAIN tasks
    /\ tasks[t].st = "sleep"
    /\ ~HandlerReady
    /\ last' = "stop"
    /\ LET c == tasks[t].ws
           self == timeout_task = t
           ts1 == CancelHandle(tasks, timeout_task)
           sp == RecorderStop(recorder)
           s == IF cancel THEN NoSend ELSE SendBare(c, PROCESSING)
           run == [NoRun EXCEPT !.audio = sp.audio,
                                !.events = <<PROCESSING>>]
           st1 == IF cancel THEN "done"
                  ELSE IF s.raised THEN "failed"
                  ELSE IF self THEN "cancelled"
                  ELSE "transcribe"
       IN /\ recording' = FALSE
          /\ timeout_task' = 0
          /\ recorder' = sp.rec
          /\ out' = [out EXCEPT ![c] = @ \o s.delivered]
          /\ failed' = [failed EXCEPT ![c] = @ + s.failed]
          /\ tasks' = [ts1 EXCEPT ![t] =
                         [@ EXCEPT !.st = st1,
                                   !.run = IF st1 = "transcribe"
                                           THEN run ELSE NoRun]]
          /\ finished' = IF st1 = "cancelled"
                         THEN finished \cup {Fin("timer", c, run, run.events, FALSE)}
                         ELSE finished
          /\ UNCHANGED cancel
    /\ UNCHANGED <<envVars, ws, inbox, hpc, hrun, sent, turn>>

\* Lines 286-291: the sleep is over.  When a recording is on, the task runs
\* _handle_ptt_up itself, up to the first run_in_executor await.  Line 243
\* then cancels whatever task _timeout_task names: when that is this very
\* task, CancelledError is thrown into it at that first await (after
\* PROCESSING was sent) and the pipeline never runs.
TimerFire(t) ==
    /\ t \in DOMAIN tasks
    /\ tasks[t].st = "sleep"
    /\ ~HandlerReady
    /\ last' = "stop"
    /\ IF ~recording
       THEN /\ tasks' = [tasks EXCEPT ![t].st = "done"]
            /\ UNCHANGED <<recording, cancel, timeout_task, recorder, out,
                           failed, finished>>
       ELSE LET c == tasks[t].ws
                self == timeout_task = t
                ts1 == CancelHandle(tasks, timeout_task)
                sp == RecorderStop(recorder)
                s == IF cancel THEN NoSend ELSE SendBare(c, PROCESSING)
                run == [NoRun EXCEPT !.audio = sp.audio,
                                     !.events = <<PROCESSING>>]
                st1 == IF cancel THEN "done"
                       ELSE IF s.raised THEN "failed"
                       ELSE IF self THEN "cancelled"
                       ELSE "transcribe"
            IN /\ recording' = FALSE
               /\ timeout_task' = 0
               /\ recorder' = sp.rec
               /\ out' = [out EXCEPT ![c] = @ \o s.delivered]
               /\ failed' = [failed EXCEPT ![c] = @ + s.failed]
               /\ tasks' = [ts1 EXCEPT ![t] =
                              [@ EXCEPT !.st = st1,
                                        !.run = IF st1 = "transcribe"
                                                THEN run ELSE NoRun]]
               /\ finished' = IF st1 = "cancelled"
                              THEN finished \cup {Fin("timer", c, run, run.events, FALSE)}
                              ELSE finished
               /\ UNCHANGED cancel
    /\ UNCHANGED <<envVars, ws, inbox, hpc, hrun, sent, turn>>

\* ---------------------------------------------- pipeline in a timer task
TaskStage(t, r) ==
    LET c == tasks[t].ws
        evs == tasks[t].run.events \o r.s.delivered
        ended == r.next = "end"
    IN /\ out' = [out EXCEPT ![c] = @ \o r.s.delivered]
       /\ failed' = [failed EXCEPT ![c] = @ + r.s.failed]
       /\ tasks' = [tasks EXCEPT ![t] =
                      IF ended
                      THEN [@ EXCEPT !.st = IF r.s.raised THEN "failed" ELSE "done",
                                     !.run = NoRun]
                      ELSE [@ EXCEPT !.st = r.next, !.run.events = evs]]
       /\ finished' = IF ended
                      THEN finished \cup {Fin("timer", c, tasks[t].run, evs, r.s.raised)}
                      ELSE finished
       /\ UNCHANGED <<recording, cancel, timeout_task, recorder, envVars, ws,
                      inbox, hpc, hrun, sent, turn, last>>

TaskTranscribed(t) ==
    /\ t \in DOMAIN tasks
    /\ tasks[t].st = "transcribe"
    /\ ~HandlerReady
    /\ TaskStage(t, TranscribeStep(tasks[t].ws, tasks[t].run.audio))

TaskRefined(t) ==
    /\ t \in DOMAIN tasks
    /\ tasks[t].st = "refine"
    /\ ~HandlerReady
    /\ TaskStage(t, RefineStep(tasks[t].ws, tasks[t].run.audio))

\* ------------------------------------------------------------------- Next
Next ==
    \/ \E c \in Conns : Connect(c)
    \/ \E c \in Conns, m \in Payloads : ClientSend(c, m)
    \/ \E c \in Conns : ClientClose(c)
    \/ AudioCallback
    \/ \E c \in Conns : HandlerInvalidJson(c)
    \/ \E c \in Conns : HandlerNonObject(c)
    \/ \E c \in Conns : HandlerUnknown(c)
    \/ \E c \in Conns : HandlerClosed(c)
    \/ \E c \in Conns : HandlePttDown(c)
    \/ \E c \in Conns : HandlePttUp(c)
    \/ \E c \in Conns : HandleCancel(c)
    \/ \E c \in Conns : HandlerTranscribed(c)
    \/ \E c \in Conns : HandlerRefined(c)
    \/ \E t \in 1..MaxMsgs : TimerFire(t)
    \/ \E t \in 1..MaxMsgs : TaskTranscribed(t)
    \/ \E t \in 1..MaxMsgs : TaskRefined(t)

Spec == Init /\ [][Next]_vars

TypeOK ==
    /\ recording \in BOOLEAN
    /\ cancel \in BOOLEAN
    /\ timeout_task \in 0..Len(tasks)
    /\ recorder.buffer \in {"empty", "samples"}
    /\ sent \in 0..MaxMsgs
    /\ \A c \in Conns : Len(inbox[c]) <= MaxInbox
    /\ turn.timers \subseteq DOMAIN tasks
    /\ \A c \in Conns : turn.mark[c] \in 0..Len(out[c])

\* ================================================================= claims

\* The step is one in which the handler of c takes the message at the head
\* of its queue and handles it.
Handled(c) ==
    /\ Reading(c)
    /\ (hpc'[c] # "read" \/ inbox'[c] = Tail(inbox[c]))

\* The events a step delivers on c.
NewEvents(c) == SubSeq(out'[c], Len(out[c]) + 1, Len(out'[c]))

HasTerminal(evs) == \E i \in DOMAIN evs : IsTerminal(evs[i])

\* C1: a CANCEL the client issues on the connection after the turn's PTT_UP
\* was handled and before the turn's result is delivered guarantees that no
\* FINAL_PROMPT and no ERROR is sent for that turn.
C1_CancelSuppressesOutput ==
    \A r \in finished :
        (r.src = "PTT_UP" /\ r.cancelIssued) => ~HasTerminal(r.events)

\* C2: while the cancel flag is set (until a PTT_DOWN clears it) no step
\* delivers a FINAL_PROMPT or an ERROR on any connection, whatever the
\* outcome of the pipeline.
C2_NoOutputWhileCancelled ==
    [][(cancel /\ cancel') => \A c \in Conns : ~HasTerminal(NewEvents(c))]_vars

\* C3: a pipeline run started by the auto-stop timer delivers the same
\* events as a run started by an explicit PTT_UP, given the same captured
\* audio and the same engine results (no cancel flag seen, channel open).
C3_TimeoutEquivalence ==
    \A r1, r2 \in finished :
        ( /\ r1.src = "timer" /\ r2.src = "PTT_UP"
          /\ r1.audio = r2.audio
          /\ ~r1.cancelSeen /\ ~r2.cancelSeen
          /\ ~r1.sendFailed /\ ~r2.sendFailed )
        => r1.events = r2.events

\* C4: a PTT_DOWN handled while already recording changes neither the
\* recording flag, the cancel flag nor the timer (none created, the stored
\* one kept) and delivers no event.
C4_IdempotentStart ==
    [][\A c \in Conns :
          (recording /\ Dispatch(c, "PTT_DOWN") /\ Handled(c))
          => UNCHANGED <<recording, cancel, timeout_task, tasks, out>>]_vars

PendingTimer == \E t \in DOMAIN tasks : tasks[t].st = "sleep"

\* C5: a pending auto-stop timer exists if and only if recording is true.
C5_TimerIffRecording == recording <=> PendingTimer

\* C6: the pipeline of a turn started by an explicit PTT_UP never delivers
\* its result while a CANCEL that arrived on the connection is still waiting
\* to be handled.
C6_CancelHandledBeforeResult ==
    [][\A c \in Conns :
          (hpc[c] \in InPipeline /\ HasTerminal(NewEvents(c)))
          => \A i \in DOMAIN inbox[c] : inbox[c][i] # "CANCEL"]_vars

\* The session the handler of connection c works on: the attributes it
\* reaches through self, the one VoiceBridge that main() passes to serve().
SessionOf(c) ==
    [recording |-> recording, cancel |-> cancel, timeout_task |-> timeout_task,
     capture |-> recorder]

\* C7: a message handled on one connection changes neither the session of
\* another open connection nor the events delivered on it.
C7_SessionsIndependent ==
    [][\A c, d \in Conns :
          (c # d /\ ws[d] = "open" /\ Handled(c))
          => (SessionOf(d)' = SessionOf(d) /\ out'[d] = out[d])]_vars

\* C8: handling a payload that is none of the three actions changes no
\* session state, delivers nothing and leaves the connection open with its
\* handler reading on.
C8_UnrecognizedIgnored ==
    [][\A c \in Conns :
          (Reading(c) /\ Head(inbox[c]) \notin Recognized /\ Handled(c))
          => ( /\ UNCHANGED <<recording, cancel, timeout_task, tasks, out>>
               /\ hpc'[c] = "read"
               /\ ws'[c] = ws[c] )]_vars

\* C9: every PTT_DOWN handled in an idle session while the capture device
\* cannot be started delivers ERROR "Mic error" and no LISTENING, leaves
\* recording false and arms no timer.
C9_CaptureStartFailure ==
    [][\A c \in Conns :
          ( /\ mic = "no_device" /\ ~recording /\ ws[c] = "open"
            /\ Dispatch(c, "PTT_DOWN") /\ Handled(c) )
          => ( /\ NewEvents(c) = <<ERROR(MicError)>>
               /\ ~recording'
               /\ tasks' = tasks /\ timeout_task' = timeout_task )]_vars

EmptyTurn(run) == run.audio = "empty" \/ Transcribe(run.audio) = ""

Uncancelled(run) == ~run.cancelIssued /\ ~run.cancelSeen

\* C11: every uncancelled turn whose captured buffer has no samples (or
\* whose transcript is empty) is answered with PROCESSING and then
\* ERROR("No speech detected"), with no FINAL_PROMPT, and its pipeline never
\* reaches the refinement call.
C11_EmptyAudioShortCircuits ==
    /\ \A r \in finished :
          (EmptyTurn(r) /\ Uncancelled(r) /\ ~r.sendFailed)
              => r.events = <<PROCESSING, ERROR(NoSpeech)>>
    /\ \A c \in Conns : hpc[c] = "refine" => ~EmptyTurn(hrun[c])
    /\ \A t \in DOMAIN tasks : tasks[t].st = "refine" => ~EmptyTurn(tasks[t].run)

\* The events delivered on c from the LISTENING that began the recording in
\* progress (or the last one) to the end of the step, when that recording was
\* begun from idle by a PTT_DOWN of c.
TurnEvents(c) == SubSeq(out'[c], turn.mark[c], Len(out'[c]))

\* The step ends the pipeline that the handler of c runs after a PTT_UP.
TurnEnds(c) == hpc[c] \in InPipeline /\ hpc'[c] = "read"

\* C12: a turn that begins from idle with PTT_DOWN, is stopped by an explicit
\* PTT_UP, is not cancelled, has a non-empty transcript and a successful
\* refinement delivers exactly LISTENING, PROCESSING, FINAL_PROMPT with the
\* refinement engine's text, in that order, and nothing in between.
C12_HappyPath ==
    [][\A c \in Conns :
          (/\ TurnEnds(c)
           /\ turn.mark[c] > 0
           /\ Uncancelled(hrun[c])
           /\ ~cancel
           /\ ws[c] = "open"
           /\ Transcribe(hrun[c].audio) \notin {"", "raise"}
           /\ Refine(Transcribe(hrun[c].audio)) \notin RefineErrors)
              => TurnEvents(c) = <<LISTENING, PROCESSING, FINAL_PROMPT(engine.rf)>>]_vars

\* The pipeline of the run fails: transcription raises, or refinement times
\* out, cannot connect, or raises otherwise.
PipelineFails(run) ==
    \/ Transcribe(run.audio) = "raise"
    \/ Refine(Transcribe(run.audio)) \in RefineErrors

\* The message of the ERROR that the except clauses (lines 268-273) send.
FailureMessage(run) ==
    IF Transcribe(run.audio) = "raise" THEN OtherError
    ELSE IF engine.rf = "Timeout" THEN RefineTimedOut
    ELSE IF engine.rf = "ConnectionError" THEN OllamaDown
    ELSE OtherError

\* C13: when a pipeline step fails in an uncancelled turn, the client has
\* received LISTENING, PROCESSING and exactly one ERROR (the timeout message
\* for a refinement timeout); afterwards the session is idle (not recording,
\* no timer), the connection is open and reading, and a PTT_DOWN handled
\* while idle starts a recording and delivers LISTENING.
C13_FailureNotFatal ==
    [][\A c \in Conns :
          /\ (/\ TurnEnds(c)
              /\ turn.mark[c] > 0
              /\ Uncancelled(hrun[c])
              /\ ~cancel
              /\ ws[c] = "open"
              /\ PipelineFails(hrun[c]))
                 => /\ TurnEvents(c) = <<LISTENING, PROCESSING,
                                         ERROR(FailureMessage(hrun[c]))>>
                    /\ ~recording'
                    /\ timeout_task' = 0
                    /\ ~PendingTimer'
                    /\ ws'[c] = "open"
          /\ (/\ Dispatch(c, "PTT_DOWN")
              /\ Handled(c)
              /\ ~recording
              /\ ws[c] = "open"
              /\ mic = "ok")
                 => /\ recording'
                    /\ recorder'.stream = "open"
                    /\ NewEvents(c) = <<LISTENING>>]_vars

\* C14: a CANCEL handled while recording stops the capture and discards its
\* buffer, leaves no auto-stop timer armed and delivers nothing; a PTT_UP
\* that arrives afterwards delivers nothing and starts no pipeline; the next
\* PTT_DOWN clears the cancel flag, starts the capture and delivers
\* LISTENING.
C14_CancelWhileRecording ==
    [][\A c \in Conns :
          /\ (Dispatch(c, "CANCEL") /\ Handled(c) /\ recording)
                 => /\ ~recording'
                    /\ cancel'
                    /\ recorder' = NewRecorder
                    /\ timeout_task' = 0
                    /\ ~PendingTimer'
                    /\ \A d \in Conns : NewEvents(d) = <<>>
          /\ (Dispatch(c, "PTT_UP") /\ Handled(c) /\ cancel /\ ~recording)
                 => /\ UNCHANGED <<recording, cancel, tasks>>
                    /\ hpc'[c] = "read"
                    /\ \A d \in Conns : NewEvents(d) = <<>>
          /\ (/\ Dispatch(c, "PTT_DOWN")
              /\ Handled(c)
              /\ cancel
              /\ ~recording
              /\ ws[c] = "open"
              /\ mic = "ok")
                 => /\ ~cancel'
                    /\ recording'
                    /\ recorder'.stream = "open"
                    /\ NewEvents(c) = <<LISTENING>>]_vars

\* The step is one in which the handler of c exits (the connection is over).
HandlerExits(c) == hpc[c] # "ended" /\ hpc'[c] = "ended"

\* C15: when the handler of a connection exits while a recording is on, the
\* capture is stopped and its buffer discarded; and the server never
\* attempts a send on a closed channel, from a pending timer, from a
\* pipeline in flight or from an error handler.
C15_Teardown ==
    /\ [](\A c \in Conns : failed[c] = 0)
    /\ [][\A c \in Conns :
             (HandlerExits(c) /\ recording)
                 => (~recording' /\ recorder' = NewRecorder)]_vars

\* C16: whenever the session's recording flag is false, the capture stream
\* is closed and the recorder is not marked as recording (after every way
\* out of a recording and after a capture start that failed).
C16_CaptureOnlyWhileRecording ==
    ~recording => (recorder.stream = "none" /\ ~recorder.recording)

\* C17: a PTT_UP handled while the session is not recording changes neither
\* the recording flag, the cancel flag, the timer handle nor any timer task,
\* does not touch the recorder, delivers nothing and attempts no send; the
\* handler goes on reading.
C17_PttUpWhileIdle ==
    [][\A c \in Conns :
          (Dispatch(c, "PTT_UP") /\ Handled(c) /\ ~recording)
              => /\ UNCHANGED <<recording, cancel, timeout_task, tasks,
                                recorder, out, failed, hrun>>
                 /\ hpc'[c] = "read"]_vars

\* A PTT_UP was handled while idle: the only way to a recording transition
\* of kind "stop" with no timer task ever created, the cancel flag clear,
\* no handler exit and nothing delivered.
C17_Witness ==
    /\ last = "stop"
    /\ tasks = <<>>
    /\ ~cancel
    /\ ~recording
    /\ \A c \in Conns : out[c] = <<>> /\ hpc[c] \in {"none", "read"}

\* The number of PROCESSING events a step delivers, all connections together.
RECURSIVE CountProcessing(_)
CountProcessing(evs) ==
    IF evs = <<>> THEN 0
    ELSE (IF Head(evs) = PROCESSING THEN 1 ELSE 0) + CountProcessing(Tail(evs))

RECURSIVE StopsIn(_)
StopsIn(cs) ==
    IF cs = {} THEN 0
    ELSE LET c == CHOOSE x \in cs : TRUE
         IN CountProcessing(NewEvents(c)) + StopsIn(cs \ {c})

\* The step is the timer task t running while no recording is on.
TimerComesSecond(t) ==
    /\ ~recording
    /\ t \in DOMAIN tasks
    /\ tasks[t].st = "sleep"
    /\ tasks'[t].st # "sleep"
    /\ UNCHANGED <<inbox, hpc>>

\* C18: the stop sequence (recording set false, capture stopped, PROCESSING
\* sent, pipeline started) runs only in a step that finds recording true and
\* leaves it false, once in that step, so at most once for each recording
\* whatever the order of PTT_UP, timer and CANCEL; a timer or a PTT_UP that
\* finds recording false does nothing.
C18_SingleStop ==
    [][/\ StopsIn(Conns) > 0
          => /\ StopsIn(Conns) = 1
             /\ recording
             /\ ~recording'
             /\ ~recorder'.recording
             /\ recorder'.stream = "none"
       /\ \A t \in 1..MaxMsgs :
             TimerComesSecond(t)
                 => /\ tasks'[t].st = "done"
                    /\ UNCHANGED <<recording, cancel, timeout_task, recorder,
                                   out, failed, finished>>
       /\ \A c \in Conns :
             (Dispatch(c, "PTT_UP") /\ Handled(c) /\ ~recording)
                 => /\ hpc'[c] = "read"
                    /\ UNCHANGED <<recording, recorder, tasks, out, failed>>]_vars

\* A recording was stopped by PTT_UP and a timer that was still pending then
\* ran afterwards, found recording false and did nothing.
C18_Witness ==
    /\ \E t \in DOMAIN tasks : tasks[t].st = "done"
    /\ \E r \in finished : r.src = "PTT_UP"
    /\ \A r \in finished : r.src # "timer"

\* The number of FINAL_PROMPT and ERROR events among evs.
RECURSIVE CountTerminal(_)
CountTerminal(evs) ==
    IF evs = <<>> THEN 0
    ELSE (IF IsTerminal(Head(evs)) THEN 1 ELSE 0) + CountTerminal(Tail(evs))

\* C19: with the engines returning and the sends succeeding, every turn that
\* has ended, stopped by PTT_UP or by the timer, had after its PROCESSING
\* exactly one FINAL_PROMPT or ERROR, or else no event at all and then the
\* cancel flag was set during it; an uncancelled turn never ends with no
\* terminal event.
C19_TerminalOutcome ==
    \A r \in finished :
        ~r.sendFailed
            => /\ Head(r.events) = PROCESSING
               /\ CountTerminal(r.events) <= 1
               /\ CountTerminal(r.events) = 0 => r.cancelSeen

\* The step is the timer task t waking up while a recording is on and
\* stopping it (not t being cancelled by another task's stop).
TimerStops(t) ==
    /\ recording
    /\ ~recording'
    /\ t \in DOMAIN tasks
    /\ tasks[t].st = "sleep"
    /\ UNCHANGED <<inbox, hpc>>
    /\ \/ tasks'[t].st \in {"transcribe", "failed", "done"}
       \/ /\ timeout_task = t
          /\ \A u \in DOMAIN tasks : u # t => tasks'[u] = tasks[u]

\* C20: an auto-stop timer stops only the recording during which it was
\* armed: the timer created by one PTT_DOWN never stops a recording begun by
\* a later PTT_DOWN.
C20_TimerStopsOwnRecording ==
    [][\A t \in 1..MaxMsgs : TimerStops(t) => t \in turn.timers]_vars

====
